---------------------------- MODULE Spec2Model ----------------------------
(***************************************************************************)
(* Pad-O-Matic: auto-swell / looper pedal firmware (Teensy 4.0 sketches).  *)
(*                                                                         *)
(* Each sketch is one variable holding the sketch's global variables as a  *)
(* record; one action per sketch models one whole pass of its loop().      *)
(*                                                                         *)
(*   p0   src/unnamed/part_000 (single play queue, max-layer fade)         *)
(*   jl   src/just_looper.ino, first sketch (lines 1-317)                  *)
(*                                                                         *)
(* Time.  The sketches read millis() and elapsedMillis objects and only    *)
(* ever compare "time since X" against a threshold.  The model keeps each  *)
(* of these as the elapsed time itself (sinceDebounce = millis() -         *)
(* lastDebounceTime, and so on), saturated at the first value beyond the   *)
(* thresholds it is compared with, so the state space is finite without a  *)
(* time horizon (uptime stays below the 2^32 ms at which millis() wraps).   *)
(* One pass of loop() is taken dt time units after the previous one, dt in *)
(* 1..MaxDt.                                                               *)
(*                                                                         *)
(* Scale.  Durations, the sample rate, the audio block length and the RMS  *)
(* levels are scaled down; the buffer length, the padding and the loop     *)
(* length are computed from them by the source's formulas.  The source's   *)
(* values are given beside each scaled value.                              *)
(***************************************************************************)
EXTENDS Integers, Sequences, FiniteSets, TLC

VARIABLES p0, jl, ring, pl, sw, kn, cf, tk, tp, bf, rr, pm

vars == <<p0, jl, ring, pl, sw, kn, cf, tk, tp, bf, rr, pm>>

-----------------------------------------------------------------------------
(* Scaled values of the sketches' constants (same in part_000 and          *)
(* just_looper.ino).                                                       *)

\* part_000:102  tapWindow = 400 ms
tapWindow == 5
\* part_000:103  debounceDelay = 25 ms
debounceDelay == 0
\* part_000:65   MAX_LOOP_DURATION = 3000 ms
MAX_LOOP_DURATION == 2
\* part_000:67   MAX_FADE_DURATION = 1500 ms
MAX_FADE_DURATION == 1
\* part_000:73   silenceTimeout = 750 ms
silenceTimeout == 1
\* part_000:68   MAX_LAYERS = 10
MAX_LAYERS == 2
\* part_000:69   SAMPLE_RATE = 44100
SAMPLE_RATE == 1
\* part_000:189, 282  the audio block length, 128 samples
BLOCK == 2
\* part_000:72   signalThreshold = 0.01, in the unit of the level readings
signalThreshold == 1
\* the largest level reading inputAnalyzer.read() returns, same unit
MaxLevel == 3
\* the longest time between two passes of loop()
MaxDt == 1
\* AudioRecordQueue holds at most this many blocks; further ones are dropped
MaxQueue == 1
\* the record loop is followed for BUFFER_SAMPLES + MaxExtra samples
MaxExtra == 5
\* playLoop alone is followed for this many calls
MaxBlocks == 3
\* part_000:103  debounceDelay = 25 ms, as scaled where the footswitch is
\* followed alone (longer than the time between two passes, so that a
\* contact can bounce faster than the delay)
BounceDelay == 2
\* the changes of the raw reading counted within one burst of bounces
MaxBurst == 3
\* part_002:277-279  the largest reading of a pot, 1023
PotMax == 15
\* padomatic_crossfade.ino:22  silentDuration = 500 ms
silentDuration == 1
\* padomatic_crossfade.ino:23  swellDuration = 1500 ms
swellDuration == 8
\* the gain 1.0f in the fixed-point steps gains are kept in
GainOne == 3
\* the presses of the footswitch followed where presses are counted
MaxPresses == 3
\* robust_routing.ino:63  LOOP_DURATION_MS = 3000
LOOP_DURATION_MS == 2
\* padomatic.ino:178  RECORD_SECONDS * 1000 = 3000 ms
RecordMs == 3

\* part_000:70   BUFFER_PADDING = 1.25 = PadNum / PadDen
PadNum == 5
PadDen == 4

\* part_000:96-97: never assigned after initialisation (the knob code is
\* commented out)
loopDuration == MAX_LOOP_DURATION
fadeDuration == MAX_FADE_DURATION

\* part_000:71  SAMPLE_RATE * (MAX_LOOP_DURATION + MAX_FADE_DURATION *
\* BUFFER_PADDING), a float converted to uint32_t (truncated)
BUFFER_SAMPLES == (SAMPLE_RATE * (PadDen * MAX_LOOP_DURATION + PadNum * MAX_FADE_DURATION)) \div PadDen

\* part_000:236  (uint32_t)(SAMPLE_RATE * fadeDuration * BUFFER_PADDING)
paddingSamples == (SAMPLE_RATE * fadeDuration * PadNum) \div PadDen

\* part_000:230  SAMPLE_RATE * loopDuration
loopSamples == SAMPLE_RATE * loopDuration

HIGH == TRUE
LOW == FALSE

\* inputAnalyzer.available() is false
NoReading == -1

Levels == 0 .. MaxLevel

Sat(x, cap) == IF x > cap THEN cap ELSE x

-----------------------------------------------------------------------------
(* AudioEffectFade, by its contract: fadeIn(ms) / fadeOut(ms) ramp the     *)
(* gain to full / to zero over ms; ms = 0 is immediate.  The only ramp     *)
(* length the sketch uses is fadeDuration, so the position is kept in time *)
(* units: 0 is muted, FadeFull is unity gain.                              *)

FadeFull == fadeDuration

FadeIn(f, ms) == IF ms = 0 THEN [pos |-> FadeFull, dir |-> "in"]
                 ELSE [pos |-> f.pos, dir |-> "in"]

FadeOut(f, ms) == IF ms = 0 THEN [pos |-> 0, dir |-> "out"]
                  ELSE [pos |-> f.pos, dir |-> "out"]

\* the audio library's update() between two passes of loop()
FadeAdvance(f, dt) ==
    IF f.dir = "in" THEN [f EXCEPT !.pos = Sat(f.pos + dt, FadeFull)]
    ELSE [f EXCEPT !.pos = IF f.pos - dt < 0 THEN 0 ELSE f.pos - dt]

-----------------------------------------------------------------------------
(* src/unnamed/part_000                                                    *)

P0Init ==
    [ writeIndex |-> 0, readIndex |-> 0, loopStart |-> 0, loopEnd |-> 0,
      curLayer |-> 0, sinceMaxLayer |-> 0, maxLayerFading |-> FALSE,
      waitingForSignal |-> TRUE, recording |-> FALSE, playingLoop |-> FALSE,
      footswitchOn |-> FALSE,
      loopTimer |-> 0, silenceTimer |-> 0, previousRMS |-> 0,
      lastFootswitchState |-> HIGH, debouncedState |-> HIGH,
      sinceDebounce |-> 0, sinceTap |-> 0, tapCount |-> 0,
      inputFader |-> [pos |-> FadeFull, dir |-> "in"],
      loopFader |-> [pos |-> FadeFull, dir |-> "in"],
      outGain |-> <<1, 0, 1>>, recLoopGain |-> 0,
      rqEnabled |-> FALSE, rqCount |-> 0,
      \* what the last pass of loop() did (history, not read by the sketch)
      \*   event  the tap event handleFootswitch emitted
      \*   steps  the blocks of loop() that ran ("double" and "single" are
      \*          the two tap branches); "reading" when a level was
      \*          read, "onset" when the trigger came from the onset test,
      \*          "outOfRange" when loopBuffer was accessed outside its bounds
      event |-> "None", steps |-> {} ]

\* setBypass (part_000:197-205); outGain[k] is outputMixer channel k-1
setBypass(s, trueBypass) ==
    IF trueBypass THEN [s EXCEPT !.outGain[1] = 1, !.outGain[2] = 0]
    ELSE [s EXCEPT !.outGain[1] = 0, !.outGain[2] = 1]

\* DoubleTap without "tapCount = 0" (line 155)
DoubleTapKeepCount(s) ==
    [ setBypass([s EXCEPT !.inputFader = FadeIn(s.inputFader, 0)], TRUE)
        EXCEPT !.footswitchOn = FALSE, !.waitingForSignal = FALSE,
               !.recording = FALSE, !.playingLoop = FALSE,
               !.outGain[3] = 0,
               !.rqEnabled = FALSE, !.rqCount = 0,
               !.readIndex = 0, !.writeIndex = 0,
               !.loopStart = 0, !.loopEnd = 0,
               !.event = "Double", !.steps = s.steps \cup {"double"} ]

\* part_000:143-161
DoubleTap(s) ==
    [ setBypass([s EXCEPT !.inputFader = FadeIn(s.inputFader, 0)], TRUE)
        EXCEPT !.footswitchOn = FALSE, !.waitingForSignal = FALSE,
               !.recording = FALSE, !.playingLoop = FALSE,
               !.outGain[3] = 0,
               !.rqEnabled = FALSE, !.rqCount = 0,
               !.tapCount = 0,
               !.readIndex = 0, !.writeIndex = 0,
               !.loopStart = 0, !.loopEnd = 0,
               !.event = "Double", !.steps = s.steps \cup {"double"} ]

\* SingleTap without "waitingForSignal = true" (as on just_looper.ino:183)
SingleTapNoArm(s) ==
    LET on == ~s.footswitchOn
        t == [s EXCEPT !.tapCount = 0, !.footswitchOn = on,
                       !.outGain[3] = 1, !.event = "Single",
                       !.steps = s.steps \cup {"single"}]
    IN  IF on
        THEN [ setBypass(t, FALSE)
                 EXCEPT !.inputFader = FadeOut(t.inputFader, 0),
                        !.recording = FALSE ]
        ELSE [ setBypass(t, TRUE)
                 EXCEPT !.playingLoop = TRUE, !.recording = FALSE,
                        !.inputFader = FadeIn(t.inputFader, 0) ]

\* part_000:163-181
SingleTap(s) ==
    LET on == ~s.footswitchOn
        t == [s EXCEPT !.tapCount = 0, !.footswitchOn = on,
                       !.outGain[3] = 1, !.event = "Single",
                       !.steps = s.steps \cup {"single"}]
    IN  IF on
        THEN [ setBypass(t, FALSE)
                 EXCEPT !.inputFader = FadeOut(t.inputFader, 0),
                        !.waitingForSignal = TRUE, !.recording = FALSE ]
        ELSE [ setBypass(t, TRUE)
                 EXCEPT !.playingLoop = TRUE, !.recording = FALSE,
                        !.inputFader = FadeIn(t.inputFader, 0) ]

\* DebounceAfter that never restarts the debounce timer
DebounceNoRestart(s, reading, delay) ==
    LET b == IF s.sinceDebounce > delay /\ reading # s.lastFootswitchState
             THEN IF reading = LOW
                  THEN [s EXCEPT !.lastFootswitchState = reading,
                                 !.tapCount = IF s.sinceTap < tapWindow
                                              THEN s.tapCount + 1 ELSE 1,
                                 !.sinceTap = 0]
                  ELSE [s EXCEPT !.lastFootswitchState = reading]
             ELSE s
    IN  [b EXCEPT !.debouncedState = reading]

\* part_000:126-141, with the value of debounceDelay as a parameter
DebounceAfter(s, reading, delay) ==
    LET a == IF reading # s.debouncedState
             THEN [s EXCEPT !.sinceDebounce = 0] ELSE s
        b == IF a.sinceDebounce > delay /\ reading # a.lastFootswitchState
             THEN IF reading = LOW
                  THEN [a EXCEPT !.lastFootswitchState = reading,
                                 !.tapCount = IF a.sinceTap < tapWindow
                                              THEN a.tapCount + 1 ELSE 1,
                                 !.sinceTap = 0]
                  ELSE [a EXCEPT !.lastFootswitchState = reading]
             ELSE a
    IN  [b EXCEPT !.debouncedState = reading]

\* part_000:126-141
Debounce(s, reading) == DebounceAfter(s, reading, debounceDelay)

\* Taps that emits the Double tap on the third press only
TapsOnThird(d) ==
    IF d.tapCount >= 3 THEN DoubleTap(d)
    ELSE IF d.tapCount = 1 /\ d.sinceTap > tapWindow THEN SingleTap(d)
    ELSE d

\* part_000:143-181, the tap events
Taps(d) ==
    IF d.tapCount >= 2 THEN DoubleTap(d)
    ELSE IF d.tapCount = 1 /\ d.sinceTap > tapWindow THEN SingleTap(d)
    ELSE d

\* part_000:126-182
handleFootswitch(s, reading) == Taps(Debounce(s, reading))

\* Trigger with the modulo taken of the padding alone (as on
\* just_looper.ino:249)
TriggerNoWrap(s) ==
    LET a == IF s.playingLoop
             THEN [s EXCEPT !.loopEnd = s.writeIndex,
                            !.loopStart = (s.writeIndex - loopSamples + BUFFER_SAMPLES) % BUFFER_SAMPLES,
                            !.loopFader = FadeOut(s.loopFader, fadeDuration)]
             ELSE s
    IN  [a EXCEPT !.inputFader = FadeIn(FadeOut(a.inputFader, 0), fadeDuration),
                  !.curLayer = 0,
                  !.writeIndex = a.readIndex + (paddingSamples % BUFFER_SAMPLES),
                  !.rqEnabled = TRUE, !.rqCount = 0,
                  !.recLoopGain = 0,
                  !.waitingForSignal = FALSE,
                  !.recording = TRUE,
                  !.loopTimer = 0,
                  !.steps = a.steps \cup {"trigger"}]

\* Trigger without "curLayer = 0" (line 235)
TriggerKeepLayer(s) ==
    LET a == IF s.playingLoop
             THEN [s EXCEPT !.loopEnd = s.writeIndex,
                            !.loopStart = (s.writeIndex - loopSamples + BUFFER_SAMPLES) % BUFFER_SAMPLES,
                            !.loopFader = FadeOut(s.loopFader, fadeDuration)]
             ELSE s
    IN  [a EXCEPT !.inputFader = FadeIn(FadeOut(a.inputFader, 0), fadeDuration),
                  !.writeIndex = (a.readIndex + paddingSamples) % BUFFER_SAMPLES,
                  !.rqEnabled = TRUE, !.rqCount = 0,
                  !.recLoopGain = 0,
                  !.waitingForSignal = FALSE,
                  !.recording = TRUE,
                  !.loopTimer = 0,
                  !.steps = a.steps \cup {"trigger"}]

\* part_000:228-242, the body of the trigger
Trigger(s) ==
    LET a == IF s.playingLoop
             THEN [s EXCEPT !.loopEnd = s.writeIndex,
                            !.loopStart = (s.writeIndex - loopSamples + BUFFER_SAMPLES) % BUFFER_SAMPLES,
                            !.loopFader = FadeOut(s.loopFader, fadeDuration)]
             ELSE s
    IN  [a EXCEPT !.inputFader = FadeIn(FadeOut(a.inputFader, 0), fadeDuration),
                  !.curLayer = 0,
                  !.writeIndex = (a.readIndex + paddingSamples) % BUFFER_SAMPLES,
                  !.rqEnabled = TRUE, !.rqCount = 0,
                  !.recLoopGain = 0,
                  !.waitingForSignal = FALSE,
                  !.recording = TRUE,
                  !.loopTimer = 0,
                  !.steps = a.steps \cup {"trigger"}]

\* Detect with the onset test against the threshold instead of the previous
\* reading
DetectOnsetVsThreshold(s, lvl) ==
    IF lvl = NoReading THEN s
    ELSE LET r == [s EXCEPT !.steps = s.steps \cup {"reading"}]
             a == IF lvl > signalThreshold
                  THEN LET z == [r EXCEPT !.silenceTimer = 0]
                       IN  IF z.waitingForSignal
                              \/ (z.recording /\ 2 * lvl > 5 * signalThreshold)
                           THEN Trigger(IF z.waitingForSignal THEN z
                                        ELSE [z EXCEPT !.steps = z.steps \cup {"onset"}])
                           ELSE z
                  ELSE r
         IN  [a EXCEPT !.previousRMS = lvl]

\* part_000:217-246
Detect(s, lvl) ==
    IF lvl = NoReading THEN s
    ELSE LET r == [s EXCEPT !.steps = s.steps \cup {"reading"}]
             a == IF lvl > signalThreshold
                  THEN LET z == [r EXCEPT !.silenceTimer = 0]
                       IN  IF z.waitingForSignal
                              \/ (z.recording /\ 2 * lvl > 5 * z.previousRMS)
                           THEN Trigger(IF z.waitingForSignal THEN z
                                        ELSE [z EXCEPT !.steps = z.steps \cup {"onset"}])
                           ELSE z
                  ELSE r
         IN  [a EXCEPT !.previousRMS = lvl]

\* StopOnSilence with the loop end taken from the loop start (as on
\* just_looper.ino:271)
StopOnSilenceEndFromStart(s) ==
    IF s.recording /\ s.silenceTimer > silenceTimeout
    THEN [s EXCEPT !.curLayer = 0, !.recording = FALSE, !.playingLoop = TRUE,
                   !.loopEnd = (s.loopStart + loopSamples) % BUFFER_SAMPLES,
                   !.inputFader = FadeOut(s.inputFader, 0),
                   !.rqEnabled = FALSE,
                   !.steps = s.steps \cup {"silence"}]
    ELSE s

\* part_000:248-258
StopOnSilence(s) ==
    IF s.recording /\ s.silenceTimer > silenceTimeout
    THEN [s EXCEPT !.curLayer = 0, !.recording = FALSE, !.playingLoop = TRUE,
                   !.loopEnd = s.writeIndex,
                   !.loopStart = (s.writeIndex - loopSamples + BUFFER_SAMPLES) % BUFFER_SAMPLES,
                   !.inputFader = FadeOut(s.inputFader, 0),
                   !.rqEnabled = FALSE,
                   !.steps = s.steps \cup {"silence"}]
    ELSE s

\* MaxLayerGuard with "curLayer > MAX_LAYERS" as its test
MaxLayerGuardAbove(s) ==
    IF s.curLayer > MAX_LAYERS
    THEN IF s.sinceMaxLayer >= fadeDuration
         THEN [s EXCEPT !.curLayer = 0, !.recording = FALSE, !.rqEnabled = FALSE,
                        !.playingLoop = TRUE,
                        !.loopEnd = s.writeIndex,
                        !.loopStart = (s.writeIndex - loopSamples + BUFFER_SAMPLES) % BUFFER_SAMPLES,
                        !.maxLayerFading = FALSE,
                        !.steps = s.steps \cup {"maxClose"}]
         ELSE IF ~s.maxLayerFading
         THEN [s EXCEPT !.sinceMaxLayer = 0,
                        !.inputFader = FadeOut(s.inputFader, fadeDuration),
                        !.maxLayerFading = TRUE]
         ELSE s
    ELSE s

\* part_000:260-276
MaxLayerGuard(s) ==
    IF s.curLayer >= MAX_LAYERS
    THEN IF s.sinceMaxLayer >= fadeDuration
         THEN [s EXCEPT !.curLayer = 0, !.recording = FALSE, !.rqEnabled = FALSE,
                        !.playingLoop = TRUE,
                        !.loopEnd = s.writeIndex,
                        !.loopStart = (s.writeIndex - loopSamples + BUFFER_SAMPLES) % BUFFER_SAMPLES,
                        !.maxLayerFading = FALSE,
                        !.steps = s.steps \cup {"maxClose"}]
         ELSE IF ~s.maxLayerFading
         THEN [s EXCEPT !.sinceMaxLayer = 0,
                        !.inputFader = FadeOut(s.inputFader, fadeDuration),
                        !.maxLayerFading = TRUE]
         ELSE s
    ELSE s

\* WriteAdvance that wraps one sample late
WriteAdvanceLateWrap(w, n) ==
    IF w + n > BUFFER_SAMPLES THEN w + n - BUFFER_SAMPLES - 1 ELSE w + n

\* part_000:282-285, the write cursor after n more samples
RECURSIVE WriteAdvance(_, _)
WriteAdvance(w, n) ==
    IF n = 0 THEN w
    ELSE WriteAdvance(IF w + 1 >= BUFFER_SAMPLES THEN 0 ELSE w + 1, n - 1)

\* part_000:282-285, the indices of loopBuffer written by n more samples
RECURSIVE WriteIndices(_, _)
WriteIndices(w, n) ==
    IF n = 0 THEN {}
    ELSE {w} \cup WriteIndices(IF w + 1 >= BUFFER_SAMPLES THEN 0 ELSE w + 1, n - 1)

\* the step label of an access to loopBuffer outside 0 .. BUFFER_SAMPLES - 1
Outside(indices) ==
    IF indices \subseteq 0 .. BUFFER_SAMPLES - 1 THEN {} ELSE {"outOfRange"}

\* part_000:278-288
Record(s) ==
    IF s.recording /\ s.rqCount > 0
    THEN [s EXCEPT !.writeIndex = WriteAdvance(s.writeIndex, BLOCK),
                   !.rqCount = s.rqCount - 1,
                   !.steps = s.steps \cup {"record"}
                                 \cup Outside(WriteIndices(s.writeIndex, BLOCK))]
    ELSE s

\* LayerDone that closes the layer at the loop length instead of at the
\* write cursor
LayerDoneEndFromStart(s) ==
    IF s.recording /\ s.loopTimer > loopDuration
    THEN [s EXCEPT !.curLayer = s.curLayer + 1,
                   !.readIndex = IF ~s.playingLoop THEN s.loopStart ELSE s.readIndex,
                   !.playingLoop = TRUE,
                   !.loopTimer = 0,
                   !.loopEnd = (s.loopStart + loopSamples) % BUFFER_SAMPLES,
                   !.loopFader = FadeIn(s.loopFader, 0),
                   !.recLoopGain = 1,
                   !.steps = s.steps \cup {"layer"}]
    ELSE s

\* LayerDone without "curLayer++" (line 293)
LayerDoneNoCount(s) ==
    IF s.recording /\ s.loopTimer > loopDuration
    THEN [s EXCEPT !.readIndex = IF ~s.playingLoop THEN s.loopStart ELSE s.readIndex,
                   !.playingLoop = TRUE,
                   !.loopTimer = 0,
                   !.loopEnd = s.writeIndex,
                   !.loopFader = FadeIn(s.loopFader, 0),
                   !.recLoopGain = 1,
                   !.steps = s.steps \cup {"layer"}]
    ELSE s

\* part_000:290-302
LayerDone(s) ==
    IF s.recording /\ s.loopTimer > loopDuration
    THEN [s EXCEPT !.curLayer = s.curLayer + 1,
                   !.readIndex = IF ~s.playingLoop THEN s.loopStart ELSE s.readIndex,
                   !.playingLoop = TRUE,
                   !.loopTimer = 0,
                   !.loopEnd = s.writeIndex,
                   !.loopFader = FadeIn(s.loopFader, 0),
                   !.recLoopGain = 1,
                   !.steps = s.steps \cup {"layer"}]
    ELSE s

\* part_000:189-193, the cursor after n more samples
RECURSIVE PlayAdvance(_, _, _, _, _, _)
PlayAdvance(cur, n, start, end, looping, mayJump) ==
    IF n = 0 THEN cur
    ELSE LET c1 == IF cur + 1 >= BUFFER_SAMPLES THEN 0 ELSE cur + 1
             c2 == IF looping /\ c1 >= end /\ mayJump THEN start ELSE c1
         IN  PlayAdvance(c2, n - 1, start, end, looping, mayJump)

\* part_000:184-195; queue.getBuffer() stalls until a block is free (the
\* library's default), so out is never NULL
playLoop(start, end, curIndex, looping) ==
    LET needsToWrap == start > end
        alreadyWrapped == needsToWrap /\ curIndex < start
    IN  PlayAdvance(curIndex, BLOCK, start, end, looping,
                         ~needsToWrap \/ alreadyWrapped)

\* part_000:189-193, the indices of loopBuffer read by n more samples
RECURSIVE PlayIndices(_, _, _, _, _, _)
PlayIndices(cur, n, start, end, looping, mayJump) ==
    IF n = 0 THEN {}
    ELSE {cur} \cup PlayIndices(PlayAdvance(cur, 1, start, end, looping, mayJump),
                                n - 1, start, end, looping, mayJump)

\* part_000:184-195, the indices of loopBuffer one call reads
playLoopIndices(start, end, curIndex, looping) ==
    LET needsToWrap == start > end
        alreadyWrapped == needsToWrap /\ curIndex < start
    IN  PlayIndices(curIndex, BLOCK, start, end, looping,
                         ~needsToWrap \/ alreadyWrapped)

\* part_000:304-308
Play(s) ==
    IF s.playingLoop
    THEN [s EXCEPT !.readIndex = playLoop(s.loopStart, s.loopEnd, s.readIndex, ~s.recording),
                   !.steps = s.steps \cup Outside(playLoopIndices(s.loopStart, s.loopEnd,
                                                                   s.readIndex, ~s.recording))]
    ELSE s

\* whether the audio library queues a recorded block before the next pass:
\* it does so only while the record queue is enabled, and drops the block
\* when the queue is full
Arrivals(s) == IF s.rqEnabled /\ s.rqCount < MaxQueue THEN BOOLEAN ELSE {FALSE}

\* what happens between two passes of loop(): dt time units elapse, the
\* faders ramp, and the audio library may queue one recorded block
Elapse(s, dt, arrive) ==
    [s EXCEPT !.sinceDebounce = Sat(s.sinceDebounce + dt, debounceDelay + 1),
              !.sinceTap = Sat(s.sinceTap + dt, tapWindow + 1),
              !.sinceMaxLayer = Sat(s.sinceMaxLayer + dt, fadeDuration),
              !.loopTimer = Sat(s.loopTimer + dt, loopDuration + 1),
              !.silenceTimer = Sat(s.silenceTimer + dt, silenceTimeout + 1),
              !.inputFader = FadeAdvance(s.inputFader, dt),
              !.loopFader = FadeAdvance(s.loopFader, dt),
              !.rqCount = IF arrive THEN s.rqCount + 1 ELSE s.rqCount,
              !.event = "None", !.steps = {}]

\* part_000:214-302, loop() up to the play block
LoopUpToPlay(s, reading, lvl) ==
    LET a == handleFootswitch(s, reading)
        b == Detect(a, lvl)
        c == StopOnSilence(b)
        d == MaxLayerGuard(c)
        e == Record(d)
    IN  LayerDone(e)

\* part_000:207-309
LoopBody(s, reading, lvl) == Play(LoopUpToPlay(s, reading, lvl))

P0Loop ==
    \E dt \in 1 .. MaxDt, reading \in BOOLEAN, arrive \in Arrivals(p0),
       lvl \in {NoReading} \cup Levels :
        /\ p0' = LoopBody(Elapse(p0, dt, arrive), reading, lvl)
        /\ UNCHANGED <<jl, ring, pl, sw, kn, cf, tk, tp, bf, rr, pm>>

-----------------------------------------------------------------------------
(* src/just_looper.ino, first sketch (lines 1-317).  The constants have    *)
(* the values of part_000 (just_looper.ino:68-77, 110-111).                *)
(* The file does not compile as it stands ("const in" on line 69, "%" on a *)
(* float on line 249); it is modelled statement by statement as written.   *)
(*                                                                         *)
(* The record holds the sketch's control variables, its buffer cursors and *)
(* the record queue.  The audio objects the sketch only writes to are left *)
(* out: the faders and mixer gains, and the second play head (fadeLooping, *)
(* fadeLoopStart, fadeLoopEnd, fadeLoopIdx, fadeLoopStartTime,             *)
(* curFadeDuration: lines 242-247 and 310-316), which only selects the     *)
(* samples sent to fadePlayQueue.  No variable kept here is computed from  *)
(* them.                                                                   *)

JLInit ==
    [ writeIndex |-> 0, readIndex |-> 0, loopStart |-> 0, loopEnd |-> 0,
      curLayer |-> 0,
      waitingForSignal |-> TRUE, recording |-> FALSE, playingLoop |-> FALSE,
      footswitchOn |-> FALSE, readerNeedsToWrap |-> FALSE,
      loopTimer |-> 0, silenceTimer |-> 0, previousRMS |-> 0,
      lastFootswitchState |-> HIGH, debouncedState |-> HIGH,
      sinceDebounce |-> 0, sinceTap |-> 0, tapCount |-> 0,
      rqEnabled |-> FALSE, rqCount |-> 0,
      \* history, as in P0Init; steps records "trigger" only
      event |-> "None", steps |-> {} ]

\* just_looper.ino:152-173
JLDoubleTap(s) ==
    [s EXCEPT !.footswitchOn = FALSE, !.waitingForSignal = FALSE,
              !.recording = FALSE, !.playingLoop = FALSE,
              !.rqEnabled = FALSE, !.rqCount = 0,
              !.tapCount = 0,
              !.readIndex = 0, !.writeIndex = 0,
              !.loopStart = 0, !.loopEnd = 0,
              !.readerNeedsToWrap = FALSE,
              !.event = "Double"]

\* just_looper.ino:175-193.  On line 183 "waitingForSignal = true;" stands
\* behind the // of the comment and is not executed.
JLSingleTap(s) ==
    LET on == ~s.footswitchOn
        t == [s EXCEPT !.tapCount = 0, !.footswitchOn = on,
                       !.event = "Single"]
    IN  IF on
        THEN [t EXCEPT !.recording = FALSE]
        ELSE [t EXCEPT !.playingLoop = TRUE, !.recording = FALSE]

\* just_looper.ino:135-194; lines 136-150 are those of part_000:127-141
JLhandleFootswitch(s, reading) ==
    LET d == Debounce(s, reading)
    IN  IF d.tapCount >= 2 THEN JLDoubleTap(d)
        ELSE IF d.tapCount = 1 /\ d.sinceTap > tapWindow THEN JLSingleTap(d)
        ELSE d

\* just_looper.ino:241-259.  Line 249 takes the modulo of the padding alone:
\* readIndex + (padding % BUFFER_SAMPLES).
JLTrigger(s) ==
    LET w == s.readIndex + (paddingSamples % BUFFER_SAMPLES)
    IN  [s EXCEPT !.writeIndex = w,
                  !.loopStart = w,
                  !.playingLoop = FALSE,
                  !.rqEnabled = TRUE, !.rqCount = 0,
                  !.waitingForSignal = FALSE,
                  !.recording = TRUE,
                  !.loopTimer = 0,
                  !.steps = s.steps \cup {"trigger"}]

\* just_looper.ino:229-263
JLDetect(s, lvl) ==
    IF lvl = NoReading THEN s
    ELSE LET a == IF lvl > signalThreshold
                  THEN LET z == [s EXCEPT !.silenceTimer = 0, !.curLayer = 0]
                       IN  IF z.waitingForSignal
                              \/ (z.recording /\ 2 * lvl > 5 * z.previousRMS)
                           THEN JLTrigger(z) ELSE z
                  ELSE s
         IN  [a EXCEPT !.previousRMS = lvl]

\* just_looper.ino:265-274
JLStop(s) ==
    IF s.curLayer >= MAX_LAYERS \/ (s.recording /\ s.silenceTimer > silenceTimeout)
    THEN [s EXCEPT !.curLayer = 0, !.recording = FALSE, !.playingLoop = TRUE,
                   !.loopEnd = (s.loopStart + loopSamples) % BUFFER_SAMPLES,
                   !.rqEnabled = FALSE]
    ELSE s

\* just_looper.ino:276-288
JLRecord(s) ==
    IF s.recording /\ s.rqCount > 0
    THEN [s EXCEPT !.writeIndex = WriteAdvance(s.writeIndex, BLOCK),
                   !.rqCount = s.rqCount - 1]
    ELSE IF s.playingLoop
    THEN [s EXCEPT !.writeIndex = WriteAdvance(s.writeIndex, 1)]
    ELSE s

\* just_looper.ino:290-302
JLLayerDone(s) ==
    IF s.recording /\ s.loopTimer > loopDuration
    THEN [s EXCEPT !.curLayer = s.curLayer + 1,
                   !.readIndex = IF ~s.playingLoop THEN s.loopStart ELSE s.readIndex,
                   !.playingLoop = TRUE,
                   !.loopTimer = 0,
                   !.loopEnd = s.writeIndex]
    ELSE s

\* just_looper.ino:196-207; the looping test is the global !recording
JLplayLoop(start, end, curIndex, rec) == playLoop(start, end, curIndex, ~rec)

\* just_looper.ino:304-308
JLPlay(s) ==
    IF s.playingLoop
    THEN [s EXCEPT !.readIndex = JLplayLoop(s.loopStart, s.loopEnd, s.readIndex, s.recording)]
    ELSE s

\* between two passes of loop()
JLElapse(s, dt, arrive) ==
    [s EXCEPT !.sinceDebounce = Sat(s.sinceDebounce + dt, debounceDelay + 1),
              !.sinceTap = Sat(s.sinceTap + dt, tapWindow + 1),
              !.loopTimer = Sat(s.loopTimer + dt, loopDuration + 1),
              !.silenceTimer = Sat(s.silenceTimer + dt, silenceTimeout + 1),
              !.rqCount = IF arrive THEN s.rqCount + 1 ELSE s.rqCount,
              !.event = "None", !.steps = {}]

\* just_looper.ino:219-317
JLLoopBody(s, reading, lvl) ==
    JLPlay(JLLayerDone(JLRecord(JLStop(JLDetect(JLhandleFootswitch(s, reading), lvl)))))

JLLoop ==
    \E dt \in 1 .. MaxDt, reading \in BOOLEAN, arrive \in Arrivals(jl),
       lvl \in {NoReading} \cup Levels :
        /\ jl' = JLLoopBody(JLElapse(jl, dt, arrive), reading, lvl)
        /\ UNCHANGED <<p0, ring, pl, sw, kn, cf, tk, tp, bf, rr, pm>>

-----------------------------------------------------------------------------
(* The record loop of part_000 with the contents of loopBuffer             *)
(* (part_000:278-288): ring.buf is loopBuffer, ring.writeIndex the write   *)
(* cursor, ring.written the samples handed to the loop so far, in order.   *)
(* A cell nothing was written to yet holds "none".                         *)

\* the values of a sample
Samples == {"a", "b"}

\* part_000:76, 91: loopBuffer and writeIndex = 0 before the first write
RingInit ==
    [buf |-> [i \in 0 .. BUFFER_SAMPLES - 1 |-> "none"],
     writeIndex |-> 0,
     written |-> << >>]

\* RecordBlock that stores each sample after moving the cursor
RECURSIVE RecordBlockIncrementFirst(_, _)
RecordBlockIncrementFirst(r, buffer) ==
    IF buffer = << >> THEN r
    ELSE LET w == IF r.writeIndex + 1 >= BUFFER_SAMPLES THEN 0 ELSE r.writeIndex + 1
         IN  RecordBlockIncrementFirst(
                 [buf |-> [r.buf EXCEPT ![w] = Head(buffer)],
                  writeIndex |-> w,
                  written |-> Append(r.written, Head(buffer))],
                 Tail(buffer))

\* part_000:282-285, the copy loop over one block of the record queue
RECURSIVE RecordBlock(_, _)
RecordBlock(r, buffer) ==
    IF buffer = << >> THEN r
    ELSE RecordBlock(
             [buf |-> [r.buf EXCEPT ![r.writeIndex] = Head(buffer)],
              writeIndex |-> IF r.writeIndex + 1 >= BUFFER_SAMPLES THEN 0
                             ELSE r.writeIndex + 1,
              written |-> Append(r.written, Head(buffer))],
             Tail(buffer))

\* part_000:278-288, one pass that finds a block in the record queue
RingRecord ==
    \E buffer \in [1 .. BLOCK -> Samples] :
        /\ Len(ring.written) + BLOCK <= BUFFER_SAMPLES + MaxExtra
        /\ ring' = RecordBlock(ring, buffer)
        /\ UNCHANGED <<p0, jl, pl, sw, kn, cf, tk, tp, bf, rr, pm>>

-----------------------------------------------------------------------------
(* playLoop of part_000 alone (part_000:184-195), called again and again   *)
(* with the same region: pl.start, pl.end and pl.looping are the           *)
(* arguments, pl.first the cursor before the first call, pl.curIndex the   *)
(* cursor, pl.out the indices of loopBuffer read so far, in order.         *)

\* part_000:189-193, the indices read by n more samples, in order
RECURSIVE PlaySeq(_, _, _, _, _, _)
PlaySeq(cur, n, start, end, looping, mayJump) ==
    IF n = 0 THEN << >>
    ELSE <<cur>> \o PlaySeq(PlayAdvance(cur, 1, start, end, looping, mayJump),
                            n - 1, start, end, looping, mayJump)

\* part_000:184-195, the indices one call reads, in order
playLoopSeq(start, end, curIndex, looping) ==
    LET needsToWrap == start > end
        alreadyWrapped == needsToWrap /\ curIndex < start
    IN  PlaySeq(curIndex, BLOCK, start, end, looping,
                     ~needsToWrap \/ alreadyWrapped)

\* no call yet
PlayIdle ==
    [start |-> 0, end |-> 0, looping |-> FALSE, first |-> 0, curIndex |-> 0,
     out |-> << >>]

\* every region, mode and cursor inside the buffer
PlayInits ==
    {[start |-> s, end |-> e, looping |-> l, first |-> c, curIndex |-> c,
      out |-> << >>] :
        s \in 0 .. BUFFER_SAMPLES - 1, e \in 0 .. BUFFER_SAMPLES - 1,
        l \in BOOLEAN, c \in 0 .. BUFFER_SAMPLES - 1}

\* part_000:184-195, one call
PlayCall ==
    /\ Len(pl.out) < MaxBlocks * BLOCK
    /\ pl' = [pl EXCEPT !.curIndex = playLoop(pl.start, pl.end, pl.curIndex, pl.looping),
                        !.out = pl.out \o playLoopSeq(pl.start, pl.end, pl.curIndex,
                                                      pl.looping)]
    /\ UNCHANGED <<p0, jl, ring, sw, kn, cf, tk, tp, bf, rr, pm>>

-----------------------------------------------------------------------------
(* handleFootswitch of part_000 alone (part_000:126-182), with             *)
(* debounceDelay scaled to BounceDelay.  sw holds the sketch's variables   *)
(* and, as history that the sketch does not read,                          *)
(*   raw        the raw reading of the previous pass                       *)
(*   stableFor  the time since the raw reading last changed                *)
(*   burst      the changes of the raw reading in the current burst: a     *)
(*              change belongs to the burst of the change before it when   *)
(*              it follows it by BounceDelay or less                       *)
(*   edges      the changes of level accepted since the burst began        *)

SwInit ==
    P0Init @@ [raw |-> HIGH, stableFor |-> 0, burst |-> 0, edges |-> 0]

\* dt time units elapse between two passes
SwElapse(s, dt) ==
    [s EXCEPT !.sinceDebounce = Sat(s.sinceDebounce + dt, BounceDelay + 1),
              !.sinceTap = Sat(s.sinceTap + dt, tapWindow + 1),
              !.stableFor = Sat(s.stableFor + dt, BounceDelay + 1),
              !.event = "None", !.steps = {}]

\* the history of the raw reading, before handleFootswitch sees it
SwRaw(s, reading) ==
    IF reading = s.raw THEN s
    ELSE [s EXCEPT !.raw = reading, !.stableFor = 0,
                   !.burst = IF s.stableFor > BounceDelay THEN 1
                             ELSE Sat(s.burst + 1, MaxBurst),
                   !.edges = IF s.stableFor > BounceDelay THEN 0 ELSE s.edges]

\* part_000:126-182 on the reading, and the count of accepted changes
SwHandle(s, reading) ==
    LET h == Taps(DebounceAfter(s, reading, BounceDelay))
    IN  IF h.lastFootswitchState # s.lastFootswitchState
        THEN [h EXCEPT !.edges = Sat(s.edges + 1, 2)] ELSE h

\* one pass of loop() as far as the footswitch goes
SwLoop ==
    \E dt \in 1 .. MaxDt, reading \in BOOLEAN :
        /\ sw' = SwHandle(SwRaw(SwElapse(sw, dt), reading), reading)
        /\ UNCHANGED <<p0, jl, ring, pl, kn, cf, tk, tp, bf, rr, pm>>

-----------------------------------------------------------------------------
(* src/padomatic_crossfade.ino.  debounceDelay, doubleTapThreshold (400    *)
(* ms, tapWindow here) and the block length are the ones of part_000.      *)
(* Gains are kept in steps of 1 / GainOne, rounded down.  The level test   *)
(* of lines 137-138 works on a smoothed mean square; the model takes its   *)
(* outcome, signalActive, once per block.  cf holds the sketch's variables *)
(* (sinceSwell is millis() - swellStartTime, sinceDebounce is millis() -   *)
(* lastDebounceTime) and, as history the sketch does not read,             *)
(*   event       the tap event the last pass acted on                      *)
(*   loud        the input was above the threshold during the last pass    *)
(*               (signalActive, whether or not a block was read)           *)
(*   played      the last pass ran the playback block                      *)
(*   outA, outB  the gains that block applied to activeBuffer and to       *)
(*               fadingBuffer                                              *)
(*   gain, prevGain, elapsed, prevElapsed                                  *)
(*               what the last two calls of computeSwellGain returned      *)
(*               and the elapsed times they saw (-1: no call yet)          *)

\* padomatic_crossfade.ino:25  RECORD_SECONDS = 3
RECORD_SECONDS == 3

\* padomatic_crossfade.ino:26
BUFFER_SIZE == SAMPLE_RATE * RECORD_SECONDS

PedalStates == {"IDLE", "LISTENING", "RECORDING", "LOOPING"}

RECURSIVE Pow(_, _)
Pow(b, n) == IF n = 0 THEN 1 ELSE b * Pow(b, n - 1)

\* padomatic_crossfade.ino:71-72  log1p(9 * t) / log1p(9) with
\* t = elapsed / swellDuration, i.e. log10(1 + 9 t), in steps of 1 / GainOne
\* rounded down: the largest k with 10^(k / GainOne) <= 1 + 9 t
SwellCurve(elapsed) ==
    CHOOSE k \in 0 .. GainOne :
        /\ Pow(10, k) * Pow(swellDuration, GainOne)
               <= Pow(swellDuration + 9 * elapsed, GainOne)
        /\ \A j \in k + 1 .. GainOne :
               Pow(10, j) * Pow(swellDuration, GainOne)
                   > Pow(swellDuration + 9 * elapsed, GainOne)

CFInit ==
    [ pedalState |-> "IDLE",
      swelling |-> FALSE, loopingActive |-> FALSE, recordingActive |-> FALSE,
      crossfading |-> FALSE, sinceSwell |-> 0,
      \* lines 42-44: the buffers the two pointers refer to
      activeBuffer |-> "A", fadingBuffer |-> "B", usingA |-> TRUE,
      bufferWriteIndex |-> 0, playbackIndex |-> 0, silenceTimer |-> 0,
      lastFootswitchReading |-> HIGH, debouncedFootswitchState |-> HIGH,
      sinceDebounce |-> 0, tapTimer |-> 0, tapCount |-> 0,
      \* audioQueue: begin() in setup (line 79)
      qEnabled |-> TRUE, qCount |-> 0,
      event |-> "None", loud |-> FALSE, played |-> FALSE,
      outA |-> 0, outB |-> 0,
      gain |-> -1, prevGain |-> -1, elapsed |-> -1, prevElapsed |-> -1 ]

\* padomatic_crossfade.ino:59-63
startSwell(c) ==
    [c EXCEPT !.sinceSwell = 0, !.swelling = TRUE, !.crossfading = TRUE]

\* computeSwellGain that follows the curve up to and including swellDuration
computeSwellGainLate(c) ==
    LET g == IF c.sinceSwell > swellDuration THEN GainOne
             ELSE SwellCurve(c.sinceSwell)
    IN  [c EXCEPT !.swelling = IF c.sinceSwell > swellDuration THEN FALSE
                               ELSE c.swelling,
                  !.gain = g, !.prevGain = c.gain,
                  !.elapsed = c.sinceSwell, !.prevElapsed = c.elapsed]

\* padomatic_crossfade.ino:65-73; the value returned is left in gain
computeSwellGain(c) ==
    LET g == IF c.sinceSwell >= swellDuration THEN GainOne
             ELSE SwellCurve(c.sinceSwell)
    IN  [c EXCEPT !.swelling = IF c.sinceSwell >= swellDuration THEN FALSE
                               ELSE c.swelling,
                  !.gain = g, !.prevGain = c.gain,
                  !.elapsed = c.sinceSwell, !.prevElapsed = c.elapsed]

\* padomatic_crossfade.ino:84-123
CFhandleFootswitch(c, currentReading) ==
    LET a == IF currentReading # c.lastFootswitchReading
             THEN [c EXCEPT !.sinceDebounce = 0] ELSE c
        b == IF a.sinceDebounce > debounceDelay
                /\ currentReading # a.debouncedFootswitchState
             THEN IF currentReading = LOW
                  THEN [a EXCEPT !.debouncedFootswitchState = currentReading,
                                 !.tapCount = a.tapCount + 1,
                                 !.tapTimer = 0]
                  ELSE [a EXCEPT !.debouncedFootswitchState = currentReading]
             ELSE a
        d == [b EXCEPT !.lastFootswitchReading = currentReading]
    IN  IF d.tapCount = 1 /\ d.tapTimer > tapWindow
        THEN [d EXCEPT !.pedalState = IF d.pedalState = "IDLE" THEN "LISTENING"
                                      ELSE IF d.pedalState = "LISTENING" THEN "LOOPING"
                                      ELSE d.pedalState,
                       !.tapCount = 0, !.event = "Single"]
        ELSE IF d.tapCount = 2
        THEN [d EXCEPT !.pedalState = "IDLE",
                       !.swelling = FALSE, !.loopingActive = FALSE,
                       !.recordingActive = FALSE, !.crossfading = FALSE,
                       !.bufferWriteIndex = 0, !.playbackIndex = 0,
                       !.qEnabled = FALSE,
                       !.tapCount = 0, !.event = "Double"]
        ELSE d

\* CFAudioBlock with the buffers of line 149 the other way round
CFAudioBlockSameBuffer(c, signalActive) ==
    IF c.qCount > 0
    THEN LET a == IF c.pedalState = "LISTENING" /\ signalActive /\ ~c.recordingActive
                  THEN [startSwell(c) EXCEPT !.recordingActive = TRUE,
                                             !.silenceTimer = 0,
                                             !.bufferWriteIndex = 0,
                                             !.fadingBuffer = c.activeBuffer,
                                             !.activeBuffer = IF c.usingA THEN "A" ELSE "B",
                                             !.usingA = ~c.usingA]
                  ELSE c
             b == IF a.swelling THEN computeSwellGain(a) ELSE a
             d == IF signalActive THEN [b EXCEPT !.silenceTimer = 0] ELSE b
         IN  [d EXCEPT !.bufferWriteIndex =
                           IF d.recordingActive
                           THEN Sat(d.bufferWriteIndex + BLOCK, BUFFER_SIZE)
                           ELSE d.bufferWriteIndex,
                       !.qCount = d.qCount - 1]
    ELSE c

\* padomatic_crossfade.ino:129-167, one block of the record queue
CFAudioBlock(c, signalActive) ==
    IF c.qCount > 0
    THEN LET a == IF c.pedalState = "LISTENING" /\ signalActive /\ ~c.recordingActive
                  THEN [startSwell(c) EXCEPT !.recordingActive = TRUE,
                                             !.silenceTimer = 0,
                                             !.bufferWriteIndex = 0,
                                             !.fadingBuffer = c.activeBuffer,
                                             !.activeBuffer = IF c.usingA THEN "B" ELSE "A",
                                             !.usingA = ~c.usingA]
                  ELSE c
             b == IF a.swelling THEN computeSwellGain(a) ELSE a
             d == IF signalActive THEN [b EXCEPT !.silenceTimer = 0] ELSE b
         IN  [d EXCEPT !.bufferWriteIndex =
                           IF d.recordingActive
                           THEN Sat(d.bufferWriteIndex + BLOCK, BUFFER_SIZE)
                           ELSE d.bufferWriteIndex,
                       !.qCount = d.qCount - 1]
    ELSE c

\* padomatic_crossfade.ino:169-177
CFStopOnSilence(c) ==
    IF c.recordingActive /\ c.silenceTimer > silentDuration
    THEN [c EXCEPT !.recordingActive = FALSE, !.loopingActive = TRUE,
                   !.playbackIndex = 0, !.qEnabled = FALSE,
                   !.crossfading = FALSE]
    ELSE c

\* padomatic_crossfade.ino:194-195, the playback index after n more samples
RECURSIVE CFAdvance(_, _)
CFAdvance(i, n) ==
    IF n = 0 THEN i
    ELSE CFAdvance(IF i + 1 >= BUFFER_SIZE THEN 0 ELSE i + 1, n - 1)

\* CFPlayback that mixes the two buffers whether crossfading or not
CFPlaybackAlwaysMix(c) ==
    IF c.loopingActive
    THEN LET a == IF c.swelling THEN computeSwellGain(c) ELSE c
             fadeInGain == IF c.swelling THEN a.gain ELSE GainOne
             fadeOutGain == GainOne - fadeInGain
         IN  [a EXCEPT !.outA = fadeInGain,
                       !.outB = fadeOutGain,
                       !.played = TRUE,
                       !.playbackIndex = CFAdvance(c.playbackIndex, BLOCK)]
    ELSE c

\* padomatic_crossfade.ino:179-198
CFPlayback(c) ==
    IF c.loopingActive
    THEN LET a == IF c.swelling THEN computeSwellGain(c) ELSE c
             fadeInGain == IF c.swelling THEN a.gain ELSE GainOne
             fadeOutGain == GainOne - fadeInGain
         IN  [a EXCEPT !.outA = IF a.crossfading THEN fadeInGain ELSE GainOne,
                       !.outB = IF a.crossfading THEN fadeOutGain ELSE 0,
                       !.played = TRUE,
                       !.playbackIndex = CFAdvance(c.playbackIndex, BLOCK)]
    ELSE c

\* what happens between two passes of loop(): dt time units elapse and the
\* audio library may queue one recorded block
CFElapse(c, dt, arrive) ==
    [c EXCEPT !.sinceDebounce = Sat(c.sinceDebounce + dt, debounceDelay + 1),
              !.tapTimer = Sat(c.tapTimer + dt, tapWindow + 1),
              !.silenceTimer = Sat(c.silenceTimer + dt, silentDuration + 1),
              !.sinceSwell = Sat(c.sinceSwell + dt, swellDuration + 1),
              !.qCount = IF arrive THEN c.qCount + 1 ELSE c.qCount,
              !.event = "None", !.loud = FALSE, !.played = FALSE]

\* whether the audio library queues a recorded block before the next pass
CFArrivals(c) == IF c.qEnabled /\ c.qCount < MaxQueue THEN BOOLEAN ELSE {FALSE}

\* padomatic_crossfade.ino:126-199, one pass of loop(), before which a
\* recorded block was queued or not: handleFootswitch (a), the record queue
\* block (b), the end on silence and the playback block (d)
CFPass(arrive) ==
    \E dt \in 1 .. MaxDt, currentReading \in BOOLEAN, signalActive \in BOOLEAN :
        \E a \in {CFhandleFootswitch(CFElapse(cf, dt, arrive), currentReading)} :
            \E b \in {CFAudioBlock(a, signalActive)} :
                \E d \in {CFPlayback(CFStopOnSilence(b))} :
                    /\ cf' = [d EXCEPT !.loud = signalActive]
                    /\ UNCHANGED <<p0, jl, ring, pl, sw, kn, tk, tp, bf, rr, pm>>

CFLoop == \E arrive \in CFArrivals(cf) : CFPass(arrive)

\* a pass that finds a newly recorded block: the audio library delivers one
\* every block period while the record queue is enabled and has room
CFBlockPass == TRUE \in CFArrivals(cf) /\ CFPass(TRUE)

-----------------------------------------------------------------------------
(* readKnobs of the knob-controlled sketch of src/unnamed/part_002 (lines  *)
(* 201-432).  loopDurationSec is a float: kn.loopMsNum is loopDurationSec  *)
(* in milliseconds times PotMax, which is an integer for every reading.    *)
(* kn.fadeDuration is in milliseconds, kn.calls counts the calls (0 or 1   *)
(* and more).                                                              *)

\* part_002:277  mapf(.., 0, 1023, 0.25f, 3.0f), in milliseconds
LoopMsMin == 250
LoopMsMax == 3000
\* part_002:278  map(.., 0, 1023, 0, 1500)
FadeMsMax == 1500
\* part_002:254-255  fadeDuration = 1000, loopDurationSec = 2.0f
FadeMsDefault == 1000
LoopMsDefault == 2000

\* part_002:272-274, times 1000 * PotMax:
\* outMin + (outMax - outMin) * (val - inMin) / (inMax - inMin)
mapfNum(val, outMin, outMax) == outMin * PotMax + (outMax - outMin) * val

\* Arduino's map(x, 0, inMax, 0, outMax) on integers (the division truncates)
map(val, inMax, outMax) == (val * outMax) \div inMax

KnobsInit ==
    [loopMsNum |-> LoopMsDefault * PotMax, fadeDuration |-> FadeMsDefault,
     calls |-> 0]

\* part_002:276-282
readKnobs(k, potLoopLen, potFade) ==
    [loopMsNum |-> mapfNum(potLoopLen, LoopMsMin, LoopMsMax),
     fadeDuration |-> map(potFade, PotMax, FadeMsMax),
     calls |-> 1]

\* part_002:352, the call at the top of loop()
KnobsLoop ==
    \E potLoopLen \in 0 .. PotMax, potFade \in 0 .. PotMax :
        /\ kn' = readKnobs(kn, potLoopLen, potFade)
        /\ UNCHANGED <<p0, jl, ring, pl, sw, cf, tk, tp, bf, rr, pm>>

-----------------------------------------------------------------------------
(* src/unnamed/part_000 with a record of what its recordings wrote, while  *)
(* the footswitch is left alone (the pin reads HIGH): the sketch powers up *)
(* with waitingForSignal = true (line 88), so the first strike starts a    *)
(* recording.  tk.s is the sketch's state as in p0; the other fields are   *)
(* history the sketch does not keep:                                       *)
(*   first     the writeIndex chosen by the last trigger (line 236)        *)
(*   written   the indices of loopBuffer written (line 283) since the      *)
(*             trigger that started the recording                          *)
(*   playFrom  in a pass that ran the layer block, the readIndex with      *)
(*             which the play block of that pass was entered               *)

TrackInit ==
    [s |-> P0Init, first |-> 0, written |-> {}, playFrom |-> 0]

\* the indices from start up to end, end excluded, going forward and
\* wrapping at the end of loopBuffer
Region(start, end) ==
    {(start + i) % BUFFER_SAMPLES :
        i \in 0 .. ((end - start + BUFFER_SAMPLES) % BUFFER_SAMPLES) - 1}

\* part_000:207-309; f is the state before the play block (line 304), n the
\* state at the end of the pass.  A pass that triggers writes nothing
\* (recordQueue.begin(), line 237), and a pass that writes starts at the
\* writeIndex it was entered with.
TrackPass(t, f, n) ==
    [s |-> n,
     first |-> IF "trigger" \in n.steps THEN n.writeIndex ELSE t.first,
     written |-> IF "trigger" \in n.steps /\ "onset" \notin n.steps THEN {}
                 ELSE IF "record" \in n.steps
                 THEN t.written \cup WriteIndices(t.s.writeIndex, BLOCK)
                 ELSE t.written,
     playFrom |-> IF "layer" \in n.steps THEN f.readIndex ELSE 0]

\* one pass of loop() with the footswitch released
TrackLoop ==
    \E dt \in 1 .. MaxDt, arrive \in Arrivals(tk.s),
       lvl \in {NoReading} \cup Levels :
        \E a \in {handleFootswitch(Elapse(tk.s, dt, arrive), HIGH)} :
        \E b \in {Detect(a, lvl)} :
        \E c \in {StopOnSilence(b)} :
        \E d \in {MaxLayerGuard(c)} :
        \E e \in {Record(d)} :
        \E f \in {LayerDone(e)} :
        \E n \in {Play(f)} :
            /\ tk' = TrackPass(tk, f, n)
            /\ UNCHANGED <<p0, jl, ring, pl, sw, kn, cf, tp, bf, rr, pm>>

-----------------------------------------------------------------------------
(* src/unnamed/part_000 with a count of the presses and of the tap events, *)
(* while the input is silent (inputAnalyzer has no reading) and the foot   *)
(* presses the switch MaxPresses times at most.  tp.s is the sketch's      *)
(* state as in p0; the other fields are history the sketch does not keep:  *)
(*   presses     the presses accepted so far (line 132)                    *)
(*   sinceFirst  the time since the first accepted press                   *)
(*   within      every press so far was accepted less than tapWindow after *)
(*               the first one                                             *)
(*   singles, doubles  the Single and Double events emitted so far         *)

TapInit ==
    [s |-> P0Init, presses |-> 0, sinceFirst |-> 0, within |-> TRUE,
     singles |-> 0, doubles |-> 0]

\* the readings the pin can give: the foot presses again only while it has
\* presses left
TapReadings(t) ==
    IF t.presses < MaxPresses \/ t.s.lastFootswitchState = LOW
    THEN BOOLEAN ELSE {HIGH}

\* part_000:207-309; n is the state at the end of a pass that began dt after
\* the last one.  The pass accepted a press when lastFootswitchState went
\* to LOW (lines 131-139).
TapPass(t, dt, n) ==
    LET pressed == n.lastFootswitchState = LOW /\ t.s.lastFootswitchState = HIGH
        since == IF t.presses = 0 THEN 0
                 ELSE Sat(t.sinceFirst + dt, tapWindow + 1)
    IN  [s |-> n,
         presses |-> IF pressed THEN t.presses + 1 ELSE t.presses,
         sinceFirst |-> since,
         within |-> t.within /\ (pressed => since < tapWindow),
         singles |-> IF n.event = "Single" THEN t.singles + 1 ELSE t.singles,
         doubles |-> IF n.event = "Double" THEN t.doubles + 1 ELSE t.doubles]

\* one pass of loop() with no level to read; passes can follow each other
\* within one millisecond of millis() (dt = 0)
TapLoop ==
    \E dt \in 0 .. MaxDt, reading \in TapReadings(tp) :
        /\ tp' = TapPass(tp, dt, LoopBody(Elapse(tp.s, dt, FALSE), reading, NoReading))
        /\ UNCHANGED <<p0, jl, ring, pl, sw, kn, cf, tk, bf, rr, pm>>

-----------------------------------------------------------------------------
(* src/unnamed/part_000 with the contents of loopBuffer.  bf.s is the      *)
(* sketch's state as in p0, bf.buf the array: a cell holds "zero" after a  *)
(* memset (lines 123, 152) or the sample last stored in it (line 283).     *)
(* bf.held is history: the array held a sample when the last pass began.   *)

\* part_000:123  memset(loopBuffer, 0, sizeof(loopBuffer))
ZeroBuffer == [i \in 0 .. BUFFER_SAMPLES - 1 |-> "zero"]

BufInit == [s |-> P0Init, buf |-> ZeroBuffer, held |-> FALSE]

\* BufPass without the memset of the Double tap (line 152)
BufPassNoMemset(b, e, n, buffer) ==
    [s |-> n,
     buf |-> IF "record" \in n.steps
             THEN RecordBlock([buf |-> b.buf, writeIndex |-> e.writeIndex,
                               written |-> << >>], buffer).buf
             ELSE b.buf,
     held |-> b.buf # ZeroBuffer]

\* part_000:207-309 on loopBuffer; e is the state the pass began with, n
\* the state at its end, buffer the block the record queue held.  The
\* Double branch clears the array (line 152); the record block stores the
\* block from the writeIndex the pass began with (a pass that ran the
\* Double branch or the trigger does not run the record block: both leave
\* the record queue empty).
BufPass(b, e, n, buffer) ==
    LET cleared == IF "double" \in n.steps THEN ZeroBuffer ELSE b.buf
    IN  [s |-> n,
         buf |-> IF "record" \in n.steps
                 THEN RecordBlock([buf |-> cleared, writeIndex |-> e.writeIndex,
                                   written |-> << >>], buffer).buf
                 ELSE cleared,
         held |-> b.buf # ZeroBuffer]

\* the block the record queue holds: the samples are told from a cleared
\* cell, not from each other
LoudBlock == [i \in 1 .. BLOCK |-> "a"]

\* one pass of loop(); the level read is silence or the loudest one
BufLoop ==
    \E dt \in 1 .. MaxDt, reading \in BOOLEAN, arrive \in Arrivals(bf.s),
       lvl \in {NoReading, 0, MaxLevel} :
        \E e \in {Elapse(bf.s, dt, arrive)} :
            /\ bf' = BufPass(bf, e, LoopBody(e, reading, lvl), LoudBlock)
            /\ UNCHANGED <<p0, jl, ring, pl, sw, kn, cf, tk, tp, rr, pm>>

-----------------------------------------------------------------------------
(* src/robust_routing.ino.  tapWindow, debounceDelay, signalThreshold,     *)
(* silenceTimeout and the sample rate are the ones of part_000 (lines      *)
(* 62-67, 85-86).  rr holds the sketch's control variables, the one cursor *)
(* loopIndex that the copy loop and the play loop share, and the record    *)
(* queue, which setup() begins (line 95) and nothing ends.  The faders and *)
(* mixer gains, which the sketch only writes, are left out.  History the   *)
(* sketch does not keep:                                                   *)
(*   steps       the blocks of loop() the last pass ran                    *)
(*   writeStart  in a pass that stored a block, the index of its first     *)
(*               sample                                                    *)
(*   writeEnd    in a pass that stored a block, loopIndex as the copy loop *)
(*               left it: the index the next sample is to be stored at     *)

\* robust_routing.ino:65  BUFFER_SAMPLES = SAMPLE_RATE * 5
RRBufferSeconds == 5

RRBufferSamples == SAMPLE_RATE * RRBufferSeconds

RRInit ==
    [ loopIndex |-> 0,
      waitingForSignal |-> TRUE, recording |-> FALSE, playingLoop |-> FALSE,
      loopTimer |-> 0, silenceTimer |-> 0, previousRMS |-> 0,
      lastFootswitchState |-> HIGH, debouncedState |-> HIGH,
      sinceDebounce |-> 0, sinceTap |-> 0, tapCount |-> 0,
      qCount |-> 0,
      steps |-> {}, writeStart |-> 0, writeEnd |-> 0 ]

\* robust_routing.ino:122-138, the tap events (the debounce code of lines
\* 105-120 is that of part_000:127-141)
RRhandleFootswitch(s, reading) ==
    LET d == Debounce(s, reading)
        a == IF d.tapCount = 1 /\ d.sinceTap > tapWindow
             THEN [d EXCEPT !.waitingForSignal = TRUE, !.recording = FALSE,
                            !.tapCount = 0, !.steps = d.steps \cup {"single"}]
             ELSE d
    IN  IF a.tapCount >= 2
        THEN [a EXCEPT !.waitingForSignal = FALSE, !.recording = FALSE,
                       !.playingLoop = FALSE, !.tapCount = 0,
                       !.steps = a.steps \cup {"double"}]
        ELSE a

\* robust_routing.ino:144-160
RRDetect(s, lvl) ==
    IF lvl = NoReading THEN s
    ELSE LET a == IF lvl > signalThreshold
                  THEN LET z == [s EXCEPT !.silenceTimer = 0]
                       IN  IF z.waitingForSignal
                              \/ (z.recording /\ 2 * lvl > 5 * z.previousRMS)
                           THEN [z EXCEPT !.loopIndex = 0, !.loopTimer = 0,
                                          !.waitingForSignal = FALSE,
                                          !.recording = TRUE,
                                          !.steps = z.steps \cup {"trigger"}]
                           ELSE z
                  ELSE s
         IN  [a EXCEPT !.previousRMS = lvl]

\* robust_routing.ino:167-170 and 199-200, loopIndex after n more samples
RECURSIVE RRAdvance(_, _)
RRAdvance(i, n) ==
    IF n = 0 THEN i
    ELSE RRAdvance(IF i + 1 >= RRBufferSamples THEN 0 ELSE i + 1, n - 1)

\* robust_routing.ino:162-173
RRWrite(s) ==
    IF s.qCount > 0
    THEN IF s.recording
         THEN [s EXCEPT !.loopIndex = RRAdvance(s.loopIndex, BLOCK),
                        !.writeStart = s.loopIndex,
                        !.writeEnd = RRAdvance(s.loopIndex, BLOCK),
                        !.qCount = s.qCount - 1,
                        !.steps = s.steps \cup {"store"}]
         ELSE [s EXCEPT !.qCount = s.qCount - 1]
    ELSE s

\* robust_routing.ino:175-183
RRStopOnSilence(s) ==
    IF s.recording /\ s.silenceTimer > silenceTimeout
    THEN [s EXCEPT !.recording = FALSE, !.playingLoop = TRUE, !.loopIndex = 0,
                   !.steps = s.steps \cup {"silence"}]
    ELSE s

\* robust_routing.ino:185-192
RRLayer(s) ==
    IF s.recording /\ s.loopTimer > LOOP_DURATION_MS
    THEN [s EXCEPT !.playingLoop = TRUE, !.loopTimer = 0, !.loopIndex = 0,
                   !.steps = s.steps \cup {"layer"}]
    ELSE s

\* robust_routing.ino:194-202; playQueue.getBuffer() stalls until a block
\* is free
RRPlay(s) ==
    IF s.playingLoop
    THEN [s EXCEPT !.loopIndex = RRAdvance(s.loopIndex, BLOCK),
                   !.steps = s.steps \cup {"play"}]
    ELSE s

\* what happens between two passes of loop(): dt time units elapse and the
\* audio library may queue one recorded block
RRElapse(s, dt, arrive) ==
    [s EXCEPT !.sinceDebounce = Sat(s.sinceDebounce + dt, debounceDelay + 1),
              !.sinceTap = Sat(s.sinceTap + dt, tapWindow + 1),
              !.loopTimer = Sat(s.loopTimer + dt, LOOP_DURATION_MS + 1),
              !.silenceTimer = Sat(s.silenceTimer + dt, silenceTimeout + 1),
              !.qCount = IF arrive THEN s.qCount + 1 ELSE s.qCount,
              !.steps = {}, !.writeStart = 0, !.writeEnd = 0]

\* the record queue is never ended: a block is dropped only when it is full
RRArrivals(s) == IF s.qCount < MaxQueue THEN BOOLEAN ELSE {FALSE}

\* robust_routing.ino:140-203
RRLoopBody(s, reading, lvl) ==
    RRPlay(RRLayer(RRStopOnSilence(RRWrite(RRDetect(RRhandleFootswitch(s, reading),
                                                    lvl)))))

RRLoop ==
    \E dt \in 1 .. MaxDt, reading \in BOOLEAN, arrive \in RRArrivals(rr),
       lvl \in {NoReading} \cup Levels :
        /\ rr' = RRLoopBody(RRElapse(rr, dt, arrive), reading, lvl)
        /\ UNCHANGED <<p0, jl, ring, pl, sw, kn, cf, tk, tp, bf, pm>>

-----------------------------------------------------------------------------
(* src/padomatic.ino.  debounceDelay, silentDuration, swellDuration and    *)
(* the buffer length are the ones of padomatic_crossfade.ino (lines 18-24  *)
(* here).  The tests on the samples of a block are taken once per block:   *)
(* struck is the outcome of fabs(inputSample) > signalThreshold (line      *)
(* 145), heard that of sqrtf(rms) > signalThreshold (line 163).  pm holds  *)
(* the sketch's variables (sinceSwell is millis() - swellStartTime,        *)
(* sinceDebounce is millis() - lastDebounceTime) and, as history the       *)
(* sketch does not keep,                                                   *)
(*   steps        the blocks of loop() the last pass ran                   *)
(*   sinceDetect  the time since the signal was detected (line 145)        *)

PMInit ==
    [ waitingForSignal |-> FALSE, swelling |-> FALSE,
      recordingActive |-> FALSE, loopingActive |-> FALSE,
      sinceSwell |-> 0, bufferWriteIndex |-> 0, playbackIndex |-> 0,
      silenceTimer |-> 0, recordTimer |-> 0,
      lastFootswitchReading |-> HIGH, debouncedFootswitchState |-> HIGH,
      sinceDebounce |-> 0,
      \* audioQueue: begin() in setup (line 95)
      qEnabled |-> TRUE, qCount |-> 0,
      steps |-> {}, sinceDetect |-> 0 ]

\* padomatic.ino:112-135
PMFootswitch(s, currentReading) ==
    LET a == IF currentReading # s.lastFootswitchReading
             THEN [s EXCEPT !.sinceDebounce = 0] ELSE s
        b == IF a.sinceDebounce > debounceDelay
                /\ currentReading # a.debouncedFootswitchState
             THEN IF currentReading = LOW /\ ~a.recordingActive /\ ~a.loopingActive
                  THEN [a EXCEPT !.debouncedFootswitchState = currentReading,
                                 !.waitingForSignal = TRUE,
                                 !.bufferWriteIndex = 0,
                                 !.recordTimer = 0,
                                 !.steps = a.steps \cup {"press"}]
                  ELSE [a EXCEPT !.debouncedFootswitchState = currentReading]
             ELSE a
    IN  [b EXCEPT !.lastFootswitchReading = currentReading]

\* padomatic.ino:138-175, one block of the record queue; startSwell (lines
\* 55-58) and the flag computeSwellGain clears (lines 74-78) are inlined
PMAudioBlock(s, struck, heard) ==
    IF s.qCount > 0
    THEN LET a == IF s.waitingForSignal /\ struck
                  THEN [s EXCEPT !.waitingForSignal = FALSE,
                                 !.recordingActive = TRUE,
                                 !.sinceSwell = 0, !.swelling = TRUE,
                                 !.silenceTimer = 0,
                                 !.sinceDetect = 0,
                                 !.steps = s.steps \cup {"detect"}]
                  ELSE s
             b == IF a.swelling /\ a.sinceSwell >= swellDuration
                  THEN [a EXCEPT !.swelling = FALSE] ELSE a
             d == IF heard THEN [b EXCEPT !.silenceTimer = 0] ELSE b
         IN  [d EXCEPT !.bufferWriteIndex =
                           IF d.recordingActive
                           THEN Sat(d.bufferWriteIndex + BLOCK, BUFFER_SIZE)
                           ELSE d.bufferWriteIndex,
                       !.qCount = d.qCount - 1]
    ELSE s

\* padomatic.ino:178-184
PMTimeout(s) ==
    IF s.recordingActive /\ s.recordTimer > RecordMs
    THEN [s EXCEPT !.recordingActive = FALSE, !.loopingActive = TRUE,
                   !.playbackIndex = 0, !.qEnabled = FALSE,
                   !.steps = s.steps \cup {"timeout"}]
    ELSE s

\* padomatic.ino:187-193
PMSilence(s) ==
    IF s.recordingActive /\ s.silenceTimer > silentDuration
    THEN [s EXCEPT !.recordingActive = FALSE, !.loopingActive = TRUE,
                   !.playbackIndex = 0, !.qEnabled = FALSE,
                   !.steps = s.steps \cup {"silence"}]
    ELSE s

\* padomatic.ino:196-203; the index wraps at BUFFER_SIZE as in
\* padomatic_crossfade.ino
PMPlayback(s) ==
    IF s.loopingActive
    THEN [s EXCEPT !.playbackIndex = CFAdvance(s.playbackIndex, BLOCK),
                   !.steps = s.steps \cup {"play"}]
    ELSE s

\* what happens between two passes of loop(): dt time units elapse and the
\* audio library may queue one recorded block
PMElapse(s, dt, arrive) ==
    [s EXCEPT !.sinceDebounce = Sat(s.sinceDebounce + dt, debounceDelay + 1),
              !.silenceTimer = Sat(s.silenceTimer + dt, silentDuration + 1),
              !.recordTimer = Sat(s.recordTimer + dt, RecordMs + 1),
              !.sinceSwell = Sat(s.sinceSwell + dt, swellDuration + 1),
              !.sinceDetect = Sat(s.sinceDetect + dt, RecordMs + 1),
              !.qCount = IF arrive THEN s.qCount + 1 ELSE s.qCount,
              !.steps = {}]

\* whether the audio library queues a recorded block before the next pass
PMArrivals(s) == IF s.qEnabled /\ s.qCount < MaxQueue THEN BOOLEAN ELSE {FALSE}

\* padomatic.ino:110-204
PMLoopBody(s, currentReading, struck, heard) ==
    PMPlayback(PMSilence(PMTimeout(PMAudioBlock(PMFootswitch(s, currentReading),
                                                struck, heard))))

PMLoop ==
    \E dt \in 1 .. MaxDt, currentReading \in BOOLEAN, arrive \in PMArrivals(pm),
       struck \in BOOLEAN, heard \in BOOLEAN :
        /\ pm' = PMLoopBody(PMElapse(pm, dt, arrive), currentReading, struck, heard)
        /\ UNCHANGED <<p0, jl, ring, pl, sw, kn, cf, tk, tp, bf, rr>>

-----------------------------------------------------------------------------

Init ==
    /\ p0 = P0Init /\ jl = JLInit /\ ring = RingInit /\ pl = PlayIdle
    /\ sw = SwInit /\ kn = KnobsInit /\ cf = CFInit /\ tk = TrackInit /\ tp = TapInit /\ bf = BufInit /\ rr = RRInit /\ pm = PMInit

Next == P0Loop

Spec == Init /\ [][Next]_vars

NextJL == JLLoop

SpecJL == Init /\ [][NextJL]_vars

\* part_000 from power-up for as long as no Single tap has been emitted
NextBoot == P0Loop /\ p0'.event # "Single"

SpecBoot == Init /\ [][NextBoot]_vars

\* the record loop alone, no retrigger
NextRing == RingRecord

SpecRing == Init /\ [][NextRing]_vars

\* playLoop alone, from every region and cursor
InitPlay ==
    /\ p0 = P0Init /\ jl = JLInit /\ ring = RingInit /\ sw = SwInit
    /\ kn = KnobsInit /\ cf = CFInit /\ tk = TrackInit /\ tp = TapInit /\ bf = BufInit /\ rr = RRInit /\ pm = PMInit
    /\ pl \in PlayInits

NextPlay == PlayCall

SpecPlay == InitPlay /\ [][NextPlay]_vars

\* src/padomatic_crossfade.ino
NextCF == CFLoop

SpecCF == Init /\ [][NextCF]_vars

\* the same with passes of loop() that never cease, and recorded blocks
\* that keep coming while the record queue is enabled
SpecCFLive ==
    Init /\ [][NextCF]_vars /\ WF_vars(CFLoop) /\ WF_vars(CFBlockPass)

\* the playback block of src/padomatic_crossfade.ino alone
\* (padomatic_crossfade.ino:179-198), from every value of the variables it
\* reads
MixInits ==
    {[CFInit EXCEPT !.loopingActive = l, !.swelling = s, !.crossfading = x,
                    !.sinceSwell = e, !.playbackIndex = i] :
        l \in BOOLEAN, s \in BOOLEAN, x \in BOOLEAN,
        e \in 0 .. swellDuration + 1, i \in 0 .. BUFFER_SIZE - 1}

InitMix ==
    /\ p0 = P0Init /\ jl = JLInit /\ ring = RingInit /\ pl = PlayIdle
    /\ sw = SwInit /\ kn = KnobsInit /\ tk = TrackInit /\ tp = TapInit /\ bf = BufInit /\ rr = RRInit /\ pm = PMInit
    /\ cf \in MixInits

MixPass ==
    \E dt \in 1 .. MaxDt :
        /\ cf' = CFPlayback(CFElapse(cf, dt, FALSE))
        /\ UNCHANGED <<p0, jl, ring, pl, sw, kn, tk, tp, bf, rr, pm>>

NextMix == MixPass

SpecMix == InitMix /\ [][NextMix]_vars

\* computeSwellGain of src/padomatic_crossfade.ino alone
\* (padomatic_crossfade.ino:65-73), called at later and later times of one
\* swell
SwellInits ==
    {[CFInit EXCEPT !.swelling = s, !.sinceSwell = e] :
        s \in BOOLEAN, e \in 0 .. swellDuration + 1}

InitSwell ==
    /\ p0 = P0Init /\ jl = JLInit /\ ring = RingInit /\ pl = PlayIdle
    /\ sw = SwInit /\ kn = KnobsInit /\ tk = TrackInit /\ tp = TapInit /\ bf = BufInit /\ rr = RRInit /\ pm = PMInit
    /\ cf \in SwellInits

SwellCall ==
    \E dt \in 0 .. swellDuration + 1 :
        /\ cf' = computeSwellGain(
                     [cf EXCEPT !.sinceSwell = Sat(cf.sinceSwell + dt, swellDuration + 1)])
        /\ UNCHANGED <<p0, jl, ring, pl, sw, kn, tk, tp, bf, rr, pm>>

NextSwell == SwellCall

SpecSwell == InitSwell /\ [][NextSwell]_vars

\* readKnobs alone
NextKnobs == KnobsLoop

SpecKnobs == Init /\ [][NextKnobs]_vars

\* part_000 with the record of what its recordings wrote, the footswitch
\* left alone
NextTrack == TrackLoop

SpecTrack == Init /\ [][NextTrack]_vars

\* the Teensy core calls loop() again whenever it returns
SpecTrackLive == Init /\ [][NextTrack]_vars /\ WF_vars(TrackLoop)

\* part_000 with the count of presses and tap events, the input silent
NextTap == TapLoop

SpecTap == Init /\ [][NextTap]_vars

\* part_000 with the contents of loopBuffer
NextBuf == BufLoop

SpecBuf == Init /\ [][NextBuf]_vars

\* src/robust_routing.ino
NextRR == RRLoop

SpecRR == Init /\ [][NextRR]_vars

\* src/padomatic.ino
NextPM == PMLoop

SpecPM == Init /\ [][NextPM]_vars

\* the footswitch alone
NextBounce == SwLoop

SpecBounce == Init /\ [][NextBounce]_vars

-----------------------------------------------------------------------------
(* Properties of src/unnamed/part_000, checked under Spec.                 *)

\* the three mode flags are all false
Idle(s) == ~s.waitingForSignal /\ ~s.recording /\ ~s.playingLoop

\* Idle with the footswitch off: the state a Double tap leaves
Bypassed(s) == Idle(s) /\ ~s.footswitchOn

\* the pass read a level above signalThreshold
Above(s) == "reading" \in s.steps /\ s.previousRMS > signalThreshold

\* C1: at the end of the pass in which a Double tap is recognised the pedal
\* is Idle with curLayer = 0 and writeIndex = readIndex = loopStart =
\* loopEnd = 0.
C1_DoubleTapResetsAll ==
    p0.event = "Double" =>
        /\ Idle(p0)
        /\ p0.curLayer = 0
        /\ p0.writeIndex = 0 /\ p0.readIndex = 0
        /\ p0.loopStart = 0 /\ p0.loopEnd = 0

\* C2: after a Double tap the three mode flags are false at the end of every
\* later pass until a Single tap is emitted: the pass after the Double tap
\* ends Idle, and a pass that starts Idle and emits no Single tap ends Idle.
C2_StaysIdleAfterDouble ==
    [][ ((p0.event = "Double" \/ Idle(p0)) /\ p0'.event # "Single")
            => Idle(p0') ]_vars


WaitingAtDetect ==
    \/ (p0.waitingForSignal /\ p0'.event # "Double")
    \/ (p0'.event = "Single" /\ p0'.footswitchOn)

\* C6: the pass in which a level above signalThreshold is read while
\* waitingForSignal is true ends with recording = true, waitingForSignal =
\* false, curLayer = 0, loopTimer = 0 and writeIndex = (readIndex +
\* paddingSamples) mod BUFFER_SAMPLES, readIndex being the read cursor the
\* pass started with.
C6_TriggerEntersRecording ==
    [][ (WaitingAtDetect /\ Above(p0')) =>
            /\ p0'.recording /\ ~p0'.waitingForSignal
            /\ p0'.curLayer = 0 /\ p0'.loopTimer = 0
            /\ p0'.writeIndex = (p0.readIndex + paddingSamples) % BUFFER_SAMPLES ]_vars

\* a trigger from listening taken while a loop was playing from a cursor
\* that had moved on
C6_Witness ==
    /\ "trigger" \in p0.steps /\ p0.event = "None"
    /\ p0.recording /\ p0.playingLoop
    /\ p0.writeIndex # paddingSamples

\* C7: a pass that starts recording, sees no tap, reads no level above
\* signalThreshold and finds silenceTimer above silenceTimeout ends with
\* recording = false, playingLoop = true and loopEnd = writeIndex.
C7_SilenceEntersLooping ==
    [][ ( /\ p0.recording /\ p0'.event = "None" /\ ~Above(p0')
          /\ p0'.silenceTimer > silenceTimeout ) =>
            /\ "silence" \in p0'.steps
            /\ ~p0'.recording /\ p0'.playingLoop
            /\ p0'.loopEnd = p0'.writeIndex ]_vars

C7_Witness ==
    /\ "silence" \in p0.steps /\ p0.event = "None"
    /\ ~p0.recording /\ p0.playingLoop /\ p0.writeIndex # 0

\* C8: once a recording has closed on silence and no tap has come since, the
\* next level above signalThreshold starts a new recording and the fade-out
\* of the old loop (stated for the pass right after the close).
C8_StrikeWhileLoopingRecords ==
    [][ ( /\ "silence" \in p0.steps /\ p0.tapCount = 0
          /\ p0'.event = "None" /\ p0'.tapCount = 0 /\ Above(p0') ) =>
            (p0'.recording /\ p0'.loopFader.dir = "out") ]_vars

\* C9: a pass that starts recording, sees no tap and reads a level above
\* signalThreshold and above 2.5 times the previous reading ends with
\* curLayer = 0, loopTimer = 0, writeIndex = (readIndex + paddingSamples)
\* mod BUFFER_SAMPLES, the input fader at zero and fading in, and recording
\* still true.
C9_OnsetRetriggers ==
    [][ ( /\ p0.recording /\ p0'.event = "None" /\ Above(p0')
          /\ 2 * p0'.previousRMS > 5 * p0.previousRMS ) =>
            /\ "onset" \in p0'.steps
            /\ p0'.curLayer = 0 /\ p0'.loopTimer = 0
            /\ p0'.writeIndex = (p0.readIndex + paddingSamples) % BUFFER_SAMPLES
            /\ p0'.inputFader = [pos |-> 0, dir |-> "in"]
            /\ p0'.recording ]_vars

\* a retrigger taken from inside a recording that had already layered
C9_Witness ==
    /\ "onset" \in p0.steps /\ p0.event = "None"
    /\ p0.recording /\ p0.playingLoop
    /\ p0.previousRMS = MaxLevel
    /\ p0.loopFader.dir = "out"

\* the recording the pass started with is still running when the pass
\* reaches the loop-duration check: no tap, no trigger, no close
StillRecordingAtLayerCheck ==
    /\ p0.recording /\ p0'.event = "None"
    /\ p0'.steps \cap {"trigger", "silence", "maxClose"} = {}

\* C10: a pass that is still recording when it reaches the loop-duration
\* check with loopTimer above loopDuration closes a layer, and a pass that
\* closes a layer ends with curLayer one above its value at the start of the
\* pass, loopEnd = writeIndex, loopTimer = 0, playingLoop = true and
\* recording = true.
C10_LayerDone ==
    [][ /\ (StillRecordingAtLayerCheck /\ p0.loopTimer >= loopDuration) =>
              "layer" \in p0'.steps
        /\ "layer" \in p0'.steps =>
              /\ p0'.curLayer = p0.curLayer + 1
              /\ p0'.loopEnd = p0'.writeIndex
              /\ p0'.loopTimer = 0
              /\ p0'.playingLoop /\ p0'.recording ]_vars

C10_Witness ==
    /\ "layer" \in p0.steps /\ "record" \in p0.steps
    /\ p0.curLayer = MAX_LAYERS /\ p0.recording

\* C11: the max-layer force-close of a recording comes only after the input
\* fade-out of fadeDuration has been started for it: a pass that starts
\* recording, emits no tap event and force-closes starts with maxLayerFading
\* true and the input fader fading out (the fade-out is started in an
\* earlier pass, and the close waits for fadeDuration from there).
C11_ForceCloseAfterFade ==
    [][ (p0.recording /\ p0'.event = "None" /\ "maxClose" \in p0'.steps) =>
            (p0.maxLayerFading /\ p0.inputFader.dir = "out") ]_vars

\* C12: with MAX_LAYERS * loopDuration >= fadeDuration (10 * 500 >= 1500 in
\* the source), a max-layer force-close of a recording never comes less than
\* fadeDuration after the trigger or retrigger that started its input
\* fade-in: the fade-in, which that trigger starts from zero and which takes
\* fadeDuration, is complete in every pass that starts recording, emits no
\* tap event and force-closes.
C12_ForceCloseAfterFadeIn ==
    [][ ( /\ MAX_LAYERS * loopDuration >= fadeDuration
          /\ p0.recording /\ p0'.event = "None"
          /\ "maxClose" \in p0'.steps ) =>
            p0'.inputFader = [pos |-> FadeFull, dir |-> "in"] ]_vars

C12_Witness ==
    /\ "maxClose" \in p0.steps /\ p0.event = "None"
    /\ ~p0.recording /\ p0.playingLoop
    /\ p0.inputFader = [pos |-> FadeFull, dir |-> "in"]

\* C13: 0 <= curLayer <= MAX_LAYERS at the end of every pass.
C13_CurLayerInRange == p0.curLayer \in 0 .. MAX_LAYERS

\* a recording that has just closed its last layer
C13_Witness ==
    p0.curLayer = MAX_LAYERS /\ p0.recording /\ p0.loopTimer = 0

\* C14: at the end of every pass writeIndex, readIndex, loopStart and
\* loopEnd are in 0 .. BUFFER_SAMPLES - 1, and every index at which the pass
\* read or wrote loopBuffer was in 0 .. BUFFER_SAMPLES - 1.
C14_IndicesInRange ==
    /\ p0.writeIndex \in 0 .. BUFFER_SAMPLES - 1
    /\ p0.readIndex \in 0 .. BUFFER_SAMPLES - 1
    /\ p0.loopStart \in 0 .. BUFFER_SAMPLES - 1
    /\ p0.loopEnd \in 0 .. BUFFER_SAMPLES - 1
    /\ "outOfRange" \notin p0.steps

\* a pass that wrote a block across the end of the buffer while the loop
\* played
C14_Witness ==
    /\ "record" \in p0.steps /\ p0.playingLoop
    /\ p0.writeIndex = BLOCK - 1 /\ p0.readIndex = BUFFER_SAMPLES - 1

\* C18: whenever a recording is under way while the loop plays, the write
\* cursor is at least paddingSamples ahead of the read cursor, modulo
\* BUFFER_SAMPLES.
C18_WriterAheadOfReader ==
    (p0.recording /\ p0.playingLoop) =>
        (p0.writeIndex - p0.readIndex) % BUFFER_SAMPLES >= paddingSamples

\* a pass that accepts a press less than tapWindow after the press before
\* it (sinceTap is the time since that press, the pass adds at most MaxDt)
PressWithinWindow ==
    /\ p0.lastFootswitchState = HIGH /\ p0'.lastFootswitchState = LOW
    /\ p0.sinceTap + MaxDt < tapWindow

C21_SingleAtWindowEnd ==
    [][ /\ (p0.tapCount = 1 /\ p0.sinceTap >= tapWindow) => p0'.event = "Single"
        /\ p0'.event = "Single" =>
               (p0.tapCount = 1 /\ p0.sinceTap + MaxDt > tapWindow) ]_vars

\* C22: at the end of every pass that emitted a tap event tapCount is 0, and
\* no pass runs both the Double and the Single branch.
C22_OneEventAndCountCleared ==
    /\ p0.event # "None" => p0.tapCount = 0
    /\ ~({"double", "single"} \subseteq p0.steps)
    /\ p0.event = "Double" <=> "double" \in p0.steps
    /\ p0.event = "Single" <=> "single" \in p0.steps

\* a pass that resolved a pending press as a Single tap
C22_Witness ==
    /\ p0.event = "Single" /\ "single" \in p0.steps
    /\ p0.tapCount = 0 /\ p0.sinceTap > tapWindow

\* the loop reaches the output: it plays, loopFader lets it through and
\* channel 2 of outputMixer is open
LoopAudible(s) ==
    s.playingLoop /\ s.loopFader.pos > 0 /\ s.outGain[3] > 0

\* C23: the pass of a Double tap does not take the gain of the loop at the
\* output (loopFader times channel 2 of outputMixer) from non-zero to zero.
C23_DoubleTapFadesLoop ==
    [][ (LoopAudible(p0) /\ p0'.event = "Double") =>
            p0'.loopFader.pos * p0'.outGain[3] > 0 ]_vars

-----------------------------------------------------------------------------
(* Properties of the first sketch of src/just_looper.ino, checked under    *)
(* SpecJL.                                                                 *)

\* C5: a Single tap emitted while the pedal is bypassed by a Double tap (the
\* three mode flags and footswitchOn false) leaves the pedal listening, or
\* already recording when the same pass read a level above signalThreshold;
\* so that the next level above signalThreshold starts recording.
C5_SingleAfterDoubleListens ==
    [][ (Bypassed(jl) /\ jl'.event = "Single") =>
            (jl'.waitingForSignal \/ jl'.recording) ]_vars

\* C16: in a pass of the first sketch that triggered, the write cursor the
\* trigger computed is in 0 .. BUFFER_SAMPLES - 1, whatever readIndex was.
C16_TriggerWriteIndexInRange ==
    "trigger" \in jl.steps => jl.writeIndex \in 0 .. BUFFER_SAMPLES - 1

-----------------------------------------------------------------------------
(* Properties of src/unnamed/part_000 before the first Single tap, checked *)
(* under SpecBoot.                                                         *)

\* C3: as long as no Single tap has been emitted since power-up, recording
\* is false at the end of every pass.
C3_NoRecordingBeforeSingle == ~p0.recording

-----------------------------------------------------------------------------
(* Properties of the record loop, checked under SpecRing.                  *)

\* C15: once BUFFER_SAMPLES + k samples were recorded from writeIndex = 0
\* without a retrigger, writeIndex = k mod BUFFER_SAMPLES and loopBuffer holds
\* exactly the last BUFFER_SAMPLES samples, each at the index (its sequence
\* number, counted from 0) mod BUFFER_SAMPLES.
C15_RingHoldsLastSamples ==
    LET n == Len(ring.written)
    IN  n >= BUFFER_SAMPLES =>
            /\ ring.writeIndex = (n - BUFFER_SAMPLES) % BUFFER_SAMPLES
            /\ \A q \in n - BUFFER_SAMPLES .. n - 1 :
                   ring.buf[q % BUFFER_SAMPLES] = ring.written[q + 1]

\* the buffer was filled and overwritten more than once over, and the last
\* samples differ from the ones they replaced
C15_Witness ==
    /\ Len(ring.written) > 2 * BUFFER_SAMPLES
    /\ ring.written[Len(ring.written)]
           # ring.written[Len(ring.written) - BUFFER_SAMPLES]

-----------------------------------------------------------------------------
(* Properties of playLoop, checked under SpecPlay.                         *)

\* C17: with looping = true, a region that wraps (start > end) and the cursor
\* first at start, the indices read are start, start + 1, ...,
\* BUFFER_SAMPLES - 1, 0, ..., end - 1, start, ... without a skipped or
\* repeated index, for every end and every position of the block boundaries.
C17_WrappedRegionInOrder ==
    LET len == BUFFER_SAMPLES - pl.start + pl.end
    IN  (pl.looping /\ pl.start > pl.end /\ pl.first = pl.start) =>
            \A k \in 1 .. Len(pl.out) :
                pl.out[k] = (pl.start + ((k - 1) % len)) % BUFFER_SAMPLES

-----------------------------------------------------------------------------
(* Properties of handleFootswitch, checked under SpecBounce.               *)

\* C19: a change of the footswitch level is accepted only in a pass in which
\* the raw reading has been at the new level for more than the debounce
\* delay, and a burst of raw changes that follow one another by the debounce
\* delay or less yields at most one accepted change.
C19_DebounceAcceptsStableLevel ==
    [][ /\ (sw'.lastFootswitchState # sw.lastFootswitchState) =>
               /\ sw'.lastFootswitchState = sw'.raw
               /\ sw'.stableFor > BounceDelay
        /\ sw'.edges <= 1 ]_vars

\* a press accepted once the contact stopped bouncing
C19_Witness ==
    /\ sw.burst = MaxBurst /\ sw.edges = 1
    /\ sw.lastFootswitchState = LOW /\ sw.raw = LOW

-----------------------------------------------------------------------------
(* Properties of readKnobs of src/unnamed/part_002, checked under          *)
(* SpecKnobs.                                                              *)

\* C24: after every call of readKnobs the fade duration does not exceed the
\* loop duration: fadeDuration ms <= loopDurationSec * 1000.
C24_FadeWithinLoop ==
    kn.calls > 0 => kn.fadeDuration * PotMax <= kn.loopMsNum

-----------------------------------------------------------------------------
(* Properties of the playback block of src/padomatic_crossfade.ino,        *)
(* checked under SpecMix.                                                  *)

\* C25: in every playback block the gains applied to the active and to the
\* fading buffer sum to 1 while crossfading, and are 1 and 0 (the active
\* sample alone) when not crossfading.
C25_CrossfadeGainsSumToOne ==
    cf.played =>
        IF cf.crossfading THEN cf.outA + cf.outB = GainOne
        ELSE cf.outA = GainOne /\ cf.outB = 0

\* a block mixed in the middle of a crossfade
C25_Witness ==
    /\ cf.played /\ cf.crossfading /\ cf.swelling
    /\ cf.outA > 0 /\ cf.outB > 0

-----------------------------------------------------------------------------
(* Properties of computeSwellGain of src/padomatic_crossfade.ino, checked  *)
(* under SpecSwell.                                                        *)

\* C26: what computeSwellGain returns is within [0, 1], is not less than what
\* an earlier call of the same swell returned, and is exactly 1 at every
\* elapsed time >= swellDuration, where the call also clears swelling.
C26_SwellGainMonotone ==
    cf.elapsed # -1 =>
        /\ cf.gain \in 0 .. GainOne
        /\ cf.prevElapsed # -1 =>
               (cf.prevElapsed <= cf.elapsed /\ cf.prevGain <= cf.gain)
        /\ cf.elapsed >= swellDuration => (cf.gain = GainOne /\ ~cf.swelling)

\* a call at the end of the swell, after a call in the middle of it
C26_Witness ==
    /\ cf.elapsed = swellDuration /\ cf.gain = GainOne /\ ~cf.swelling
    /\ cf.prevGain > 0 /\ cf.prevGain < GainOne

-----------------------------------------------------------------------------
(* Properties of src/padomatic_crossfade.ino, checked under SpecCFLive.    *)

\* C27: whenever pedalState = LISTENING and recordingActive = false, input
\* that stays above the threshold leads to recordingActive = true (unless a
\* tap takes the pedal out of LISTENING first, or the input does not stay
\* above the threshold).
C27_ListeningLeadsToRecording ==
    (cf.pedalState = "LISTENING" /\ ~cf.recordingActive)
        ~> (cf.recordingActive \/ cf.pedalState # "LISTENING" \/ ~cf.loud)

-----------------------------------------------------------------------------
(* Properties of src/unnamed/part_000, checked under SpecTrack.            *)

\* C28: when the loop duration first elapses in a recording that started
\* with no loop playing (the layer block runs in a pass entered with
\* playingLoop = false), playback begins at the index the trigger chose for
\* the recording's first sample
C28_PlaybackStartsAtFirstSample ==
    [][ ("layer" \in tk'.s.steps /\ ~tk.s.playingLoop)
            => tk'.playFrom = tk'.first ]_vars

\* C29: after a recording closes on silence, the region from loopStart up to
\* loopEnd holds only indices written during the recording that just ended
C29_RegionWasRecorded ==
    "silence" \in tk.s.steps
        => Region(tk.s.loopStart, tk.s.loopEnd) \subseteq tk.written

-----------------------------------------------------------------------------
(* A property of src/unnamed/part_000 about the Single tap that switches   *)
(* listening off, checked under Spec.                                      *)

\* C30: after a Single tap that switched listening off, recording is false:
\* at the end of the pass that emitted the tap, and at the end of the next
\* pass unless that pass emitted another Single tap
C30_NoRecordingAfterSingleOff ==
    [][ /\ (p0'.event = "Single" /\ ~p0'.footswitchOn) => ~p0'.recording
        /\ (p0.event = "Single" /\ ~p0.footswitchOn /\ p0'.event # "Single")
               => ~p0'.recording ]_vars

-----------------------------------------------------------------------------
(* Properties of handleFootswitch of src/unnamed/part_000, checked under   *)
(* SpecTap.                                                                *)

\* no press is pending and the tap window of the last press has run out
TapsSettled(t) == t.s.tapCount = 0 /\ t.s.sinceTap > tapWindow

\* C31: three accepted presses within one tapWindow give one event, the
\* Double tap of the second press: no Single tap follows, and the pedal is
\* Idle and bypassed once the window has run out
C31_ThirdPressAbsorbed ==
    (tp.presses = 3 /\ tp.within)
        => /\ tp.doubles = 1 /\ tp.singles = 0
           /\ TapsSettled(tp) => Bypassed(tp.s)

\* C32: once two accepted presses have been resolved, they gave one Double
\* tap or two Single taps
C32_NoPressLost ==
    (tp.presses = 2 /\ TapsSettled(tp))
        => \/ tp.doubles = 1 /\ tp.singles = 0
           \/ tp.doubles = 0 /\ tp.singles = 2

-----------------------------------------------------------------------------
(* A property of src/unnamed/part_000 about the contents of loopBuffer,    *)
(* checked under SpecBuf.                                                  *)

\* C33: a pass in which recording is false when the record block is reached
\* (recording is not assigned after it, lines 278-308) leaves every cell of
\* loopBuffer as it was, except the pass of a Double tap, which leaves
\* every cell zero
C33_BufferKeptUnlessRecording ==
    [][ ~bf'.s.recording
            => IF bf'.s.event = "Double" THEN bf'.buf = ZeroBuffer
               ELSE bf'.buf = bf.buf ]_vars

\* the pass of a Double tap that found samples in the buffer and cleared it
C33_Witness ==
    bf.s.event = "Double" /\ bf.held /\ bf.buf = ZeroBuffer /\ ~bf.s.recording

-----------------------------------------------------------------------------
(* Properties of the two buffers of src/padomatic_crossfade.ino, checked   *)
(* under SpecCF.                                                           *)

\* the pass ran the trigger of lines 140-151: recordingActive is set there
\* and nowhere else
CFTriggered == ~cf.recordingActive /\ cf'.recordingActive

\* C34: activeBuffer and fadingBuffer always refer to different buffers,
\* usingA is true exactly when activeBuffer is loopBufferA, and every
\* trigger makes the buffer that was active the fading one and the other
\* buffer the active one, into which it records
C34_PingPongBuffers ==
    /\ [](/\ cf.activeBuffer # cf.fadingBuffer
          /\ cf.usingA <=> cf.activeBuffer = "A")
    /\ [][ CFTriggered => /\ cf'.fadingBuffer = cf.activeBuffer
                          /\ cf'.activeBuffer # cf.activeBuffer ]_vars

\* a trigger has swapped the buffers and a block was recorded
C34_Witness ==
    /\ cf.recordingActive /\ cf.bufferWriteIndex > 0
    /\ cf.activeBuffer = "B" /\ cf.fadingBuffer = "A" /\ ~cf.usingA

\* C35: bufferWriteIndex stays within 0 .. BUFFER_SIZE - 1: a recording
\* longer than the buffer wraps to its start
C35_WriteIndexWraps ==
    cf.bufferWriteIndex >= 0 /\ cf.bufferWriteIndex < BUFFER_SIZE

-----------------------------------------------------------------------------
(* A property of src/robust_routing.ino, checked under SpecRR.             *)

\* C36: while layering (recording and playingLoop both true) the write
\* position is moved by the copy loop alone: of two passes in a row that
\* each store a block, with no assignment loopIndex = 0 between the two
\* stores (trigger, close on silence, start of a layer), the second stores
\* its block where the first one's block ended
C36_WriteCursorOwnedByRecording ==
    [][ ( /\ rr.recording /\ rr.playingLoop
          /\ "store" \in rr.steps /\ "layer" \notin rr.steps
          /\ "store" \in rr'.steps /\ "trigger" \notin rr'.steps )
            => rr'.writeStart = rr.writeEnd ]_vars

-----------------------------------------------------------------------------
(* A property of src/padomatic.ino, checked under SpecPM.                  *)

\* C37: the recording timeout ('Layer Complete') does not end a recording
\* before RECORD_SECONDS have elapsed since the signal was detected
C37_TimeoutCountsFromDetection ==
    "timeout" \in pm.steps => pm.sinceDetect >= RecordMs

-----------------------------------------------------------------------------
(* A property of src/unnamed/part_000 while the footswitch is left alone,  *)
(* checked under SpecTrackLive.                                            *)

\* the recording is closed: the loop plays and nothing is being recorded
RecordingClosed == ~tk.s.recording /\ tk.s.playingLoop

\* the pass that led to this state restarted the recording on an onset
\* (line 222, second disjunct)
Retriggered == "onset" \in tk.s.steps

\* C38: every recording eventually ends: from a state with recording set,
\* when no tap and no further onset retrigger occurs, recording becomes
\* false with playingLoop set, even when the input stays loud forever
\* (a recording leads to its end or to a pass that retriggers)
C38_RecordingEnds ==
    (tk.s.recording /\ ~Retriggered) ~> (Retriggered \/ RecordingClosed)

\* a recording of an input that stayed above the threshold was closed by
\* the max-layer guard
C38_Witness ==
    /\ "maxClose" \in tk.s.steps /\ RecordingClosed
    /\ tk.s.previousRMS > signalThreshold /\ tk.s.silenceTimer = 0

=============================================================================
